---- MODULE Spec2Model ----
(***************************************************************************)
(* Render orchestration of news_to_video: the project manifest store       *)
(* (update_manifest, update_manifest_payload, sync_project_to_s3), the     *)
(* renderer dispatch (render_video) and the asynchronous job runner        *)
(* (start_render_async, _run_render_job) with the request handlers that    *)
(* drive them.  Specifications: Spec (handlers and jobs of one project),   *)
(* SpecLive (the executor with its workers scheduled), SpecPatch (one call *)
(* of update_manifest or update_manifest_payload on stored manifests),     *)
(* SpecRerender (render_video_local run twice), SpecVisual (the visual     *)
(* track and mux of render_video_local inside one job), SpecTts            *)
(* (synthesize_tts), SpecCaptions (generate_ass_from_timeline),            *)
(* SpecSegment (segment_text), SpecPoll (the polling loop of a remote     *)
(* render engine) and SpecStatus (status polls while the jobs run, a       *)
(* poll's read and save as separate steps).                                *)
(***************************************************************************)
EXTENDS Integers, Sequences, FiniteSets, TLC

VARIABLES
    \* ---- the project's files ----
    local,        \* the project's local manifest.json: D(dict), or NoFile
    s3m,          \* the copy of manifest.json in the blob store, or NoFile
    s3ready,      \* _s3_ready(): a bucket is configured
    \* ---- one call of update_manifest / update_manifest_payload ----
    um_pc,        \* position of the call
    um_before,    \* the local manifest.json as it was just before the call
    um_loaded,    \* the manifest the call loaded (blob store first, then local)
    um_patch,     \* the patch / payload_updates argument of the call
    um_mem,       \* the call's in-memory manifest after the merge
    \* ---- the job runner ----
    queue,        \* jobs handed to _EXECUTOR and not yet taken by a worker
    jpc,          \* position of each job in _run_render_job (of each run in
                  \* SpecRerender)
    jm,           \* each job's in-memory manifest or exception message (the
                  \* outputs each run returned in SpecRerender)
    active,       \* _ACTIVE_JOBS[project_id]: the job registered last (0: none)
    nsub,         \* number of jobs submitted so far
    req,          \* the request thread: a handler that is not yet finished
    log,          \* warning entries written to news_to_video_logger (in
                  \* SpecRerender: <<run, file>> for each upload that gave a url)
    \* ---- one call of a function of the local render pipeline ----
    rvl,          \* render_video_local: the visual track of one format
    syn,          \* synthesize_tts
    cap,          \* generate_ass_from_timeline
    sgt,          \* segment_text
    \* ---- one call of a remote render engine's polling loop ----
    pol           \* json2video run / shotstack _poll_and_fetch

fsvars  == <<local, s3m, s3ready>>
umvars  == <<um_pc, um_before, um_loaded, um_patch, um_mem>>
jobvars == <<queue, jpc, jm, active, nsub, req, log>>
fnvars  == <<rvl, syn, cap, sgt, pol>>
vars    == <<fsvars, umvars, jobvars, fnvars>>

-----------------------------------------------------------------------------
(* JSON values.  Python decides merge-or-replace with isinstance(v, dict),  *)
(* so every value carries its type.                                         *)

S(x) == [t |-> "scalar", v |-> x]
N(n) == [t |-> "num", v |-> n]
L(q) == [t |-> "list", v |-> q]
D(f) == [t |-> "dict", v |-> f]

None == S("None")
True == S("True")
EmptyDict == D(<<>>)

NoFile == [t |-> "nofile", v |-> "nofile"]

IsDict(x) == x.t = "dict"

\* Python truthiness of a JSON value (used by `x or {}` and `if outs.get(k)`).
Truthy(x) ==
    CASE x.t = "scalar" -> x.v \notin {"None", "False", ""}
      [] x.t = "num"    -> x.v # 0
      [] x.t = "list"   -> x.v # <<>>
      [] x.t = "dict"   -> DOMAIN x.v # {}
      [] OTHER          -> FALSE

\* dict.get(k) of a Python dict held as a TLA+ function.
Get(f, k) == IF k \in DOMAIN f THEN f[k] ELSE None

\* dict.update(g): the entries of g overlaid on f, one level deep.
DictUpdate(f, g) ==
    [k \in DOMAIN f \cup DOMAIN g |-> IF k \in DOMAIN g THEN g[k] ELSE f[k]]

\* f with f[k] = x.
Put(f, k, x) == [j \in DOMAIN f \cup {k} |-> IF j = k THEN x ELSE f[j]]

-----------------------------------------------------------------------------
(* update_manifest                                                          *)

\* Lines 651-666: the manifest is read from the blob store first and from
\* the local file only when the blob store gives nothing.  s3ok: get_object
\* succeeded (any failure makes _s3_download_json return None).
LoadForUpdate(loc, s3c, ready, s3ok) ==
    IF ready /\ s3ok /\ s3c # NoFile THEN s3c ELSE loc

\* A merge that replaces every patched key wholesale (no dict overlay).
MergePatchReplace(manifest, patch) ==
    [k \in DOMAIN manifest \cup DOMAIN patch |->
        IF k \in DOMAIN patch THEN patch[k] ELSE manifest[k]]

\* Lines 668-672: the merge loop.
MergePatch(manifest, patch) ==
    [k \in DOMAIN manifest \cup DOMAIN patch |->
        IF k \in DOMAIN patch
        THEN IF IsDict(patch[k]) /\ IsDict(Get(manifest, k))
             THEN D(DictUpdate(manifest[k].v, patch[k].v))
             ELSE patch[k]
        ELSE manifest[k]]

\* Lines 678-681: should_sync.
ShouldSync(patch) ==
    Get(patch, "status") = S("done") \/ "outputs" \in DOMAIN patch

-----------------------------------------------------------------------------
(* sync_project_to_s3                                                       *)

\* The (local file key, url key) pairs sync_project_to_s3 looks at.
SyncPairs ==
    { <<"mp4_16x9", "mp4_16x9_url">>, <<"mp4_1x1", "mp4_1x1_url">>,
      <<"mp4_9x16", "mp4_9x16_url">>, <<"srt", "srt_url">>,
      <<"ass", "ass_url">>, <<"audio", "audio_url">> }

\* What one upload attempt is about: manifest.json or one output file.
UploadTargets == {"manifest"} \cup {p[1] : p \in SyncPairs}

\* `m.get("outputs", {}) or {}`.
OutputsOrEmpty(m) ==
    IF Truthy(Get(m, "outputs")) THEN Get(m, "outputs") ELSE EmptyDict

\* The url entries a sync adds: one per listed file without a url whose
\* upload succeeded (up[f]: _s3_upload_file returned a url).
SyncedOutputs(outs, up) ==
    LET got == {p \in SyncPairs : /\ Truthy(Get(outs, p[1]))
                                  /\ ~Truthy(Get(outs, p[2]))
                                  /\ up[p[1]]}
        urls == {p[2] : p \in got}
    IN  [k \in DOMAIN outs \cup urls |-> IF k \in urls THEN S("url") ELSE outs[k]]

\* sync_project_to_s3(project_dir) on the files (loc, s3c): the files after
\* it and whether it raised.  Without a bucket it returns at once; a missing
\* manifest makes load_json return None and m.get raise; a truthy outputs
\* that is no dict raises at outs.get, after manifest.json was uploaded.
SyncProject(loc, s3c, ready, up) ==
    IF ~ready THEN [local |-> loc, s3 |-> s3c, raised |-> FALSE]
    ELSE IF loc = NoFile THEN [local |-> loc, s3 |-> s3c, raised |-> TRUE]
    ELSE
      LET m    == loc.v
          outs == OutputsOrEmpty(m)
          s3a  == IF up["manifest"] THEN loc ELSE s3c
      IN  IF ~IsDict(outs) THEN [local |-> loc, s3 |-> s3a, raised |-> TRUE]
          ELSE
            LET new  == SyncedOutputs(outs.v, up)
                loc2 == D(Put(m, "outputs", D(new)))
            IN  IF new # outs.v
                THEN [local |-> loc2,
                      s3 |-> IF up["manifest"] THEN loc2 ELSE s3a,
                      raised |-> FALSE]
                ELSE [local |-> loc, s3 |-> s3a, raised |-> FALSE]

\* Lines 682-689 of update_manifest: after the sync the in-memory manifest
\* of the merge is saved again, with s3_synced or with the sync error.
SyncTail(mem, loc, s3c, ready, up) ==
    LET r == SyncProject(loc, s3c, ready, up)
    IN  [local |-> IF r.raised THEN D(Put(mem, "error", S("S3 sync error")))
                   ELSE D(Put(mem, "s3_synced", True)),
         s3 |-> r.s3]

-----------------------------------------------------------------------------
(* render_video: dispatch on payload.renderer.type                          *)

\* config.py line 24.
SUPPORTED_RENDERERS ==
    {"local", "shotstack", "json2video", "mediaconvert", "openshot", "openai_sora"}

\* str(r).strip().lower() on the raw renderer types the model submits.
StripLower(r) ==
    CASE r = " Local "     -> "local"
      [] r = "JSON2Video"  -> "json2video"
      [] OTHER             -> r

\* `manifest.get("payload", {}) or {}`.
PayloadOf(m) == IF IsDict(Get(m, "payload")) THEN Get(m, "payload").v ELSE <<>>

\* The type a payload asks for: `(payload.get("renderer") or {}).get("type")
\* or "local"`, stripped and lowered (main.py lines 126-127).
RequestedType(payload) ==
    LET rcfg == IF Truthy(Get(payload, "renderer")) THEN Get(payload, "renderer").v
                ELSE <<>>
    IN  StripLower(IF "type" \in DOMAIN rcfg THEN rcfg["type"].v ELSE "local")

\* _get_renderer(payload), main.py lines 125-128.
GetRenderer(payload) ==
    LET r == RequestedType(payload)
    IN  IF r \in SUPPORTED_RENDERERS THEN r ELSE "local"

\* The branch of render_video's if/elif chain (lines 121-163) taken for the
\* resolved type: the name of the branch, "fallback" for the final else.
DispatchBranch(rtype) ==
    IF rtype \in SUPPORTED_RENDERERS THEN rtype ELSE "fallback"

\* Every branch running render_video_local.
EveryBranchLocal == SUPPORTED_RENDERERS \cup {"fallback"}

\* The branches that run render_video_local.
LocalBranches == {"local", "fallback"}

\* The branches whose render_via_* (render_video.py lines 453-469) raises
\* "Renderer ... nie jest jeszcze skonfigurowany" at once.
UnconfiguredBranches == {"json2video", "mediaconvert", "openshot"}

\* The branches whose provider asks for an API key before anything else
\* (shotstack.py lines 239-241, openai_sora.py lines 223-225).  The model's
\* payloads and environment carry no key, so these raise as well.
KeylessBranches == {"shotstack", "openai_sora"}

\* str(e) of the RuntimeError a branch without a usable provider raises.
ProviderError(branch) ==
    IF branch \in KeylessBranches THEN "provider requires an API key"
    ELSE "renderer not configured"

\* The log entries render_video writes on the way to a branch (line 159).
DispatchLog(rtype) ==
    IF DispatchBranch(rtype) = "fallback" THEN {"unknown_renderer_warning"} ELSE {}

-----------------------------------------------------------------------------
(* render_video_local: the outputs mapping (lines 357-415)                  *)

\* config.py lines 18-22.
FORMAT_PRESETS == {"16x9", "1x1", "9x16"}

\* Lines 200-203: payload.formats, filtered, defaulting to 16x9.  The list
\* is kept as the set of its elements: only membership is used below.
Formats(payload) ==
    LET raw == Get(payload, "formats")
        lst == IF raw.t = "list" /\ Truthy(raw) THEN {raw.v[i].v : i \in DOMAIN raw.v}
               ELSE IF raw.t = "scalar" /\ Truthy(raw) THEN {raw.v}
               ELSE {"16x9"}
        ok  == lst \cap FORMAT_PRESETS
    IN  IF ok = {} THEN {"16x9"} ELSE ok

Mp4Key(fmt) ==
    CASE fmt = "16x9" -> "mp4_16x9"
      [] fmt = "1x1"  -> "mp4_1x1"
      [] fmt = "9x16" -> "mp4_9x16"

UrlKey(k) ==
    CASE k = "mp4_16x9" -> "mp4_16x9_url"
      [] k = "mp4_1x1"  -> "mp4_1x1_url"
      [] k = "mp4_9x16" -> "mp4_9x16_url"
      [] k = "srt"      -> "srt_url"
      [] k = "ass"      -> "ass_url"
      [] k = "audio"    -> "audio_url"

\* The entries one successful run writes: a path per muxed format and per
\* caption/audio file, a url for each of them whose upload returned one
\* (up[f]), and duration_sec (dur: the measured duration of this run).
RunOutputs(fmts, up, dur) ==
    LET files == {Mp4Key(f) : f \in fmts} \cup {"srt", "ass", "audio"}
        urls  == {UrlKey(k) : k \in {f \in files : up[f]}}
    IN  [k \in files \cup urls \cup {"duration_sec"} |->
            IF k = "duration_sec" THEN N(dur)
            ELSE IF k \in urls THEN S("url") ELSE S("path")]

\* A render that writes only this run's entries as the outputs.
LocalRenderManifestFresh(loaded, up, dur) ==
    Put(Put(loaded, "outputs", D(RunOutputs(Formats(PayloadOf(loaded)), up, dur))),
        "status", S("done"))

\* Lines 406-416: the manifest render_video_local saves: the manifest it
\* loaded at its start with this run's entries laid over outputs and status
\* set to done.
LocalRenderManifest(loaded, up, dur) ==
    LET outs == IF "outputs" \in DOMAIN loaded THEN loaded["outputs"].v ELSE <<>>
        new  == DictUpdate(outs, RunOutputs(Formats(PayloadOf(loaded)), up, dur))
    IN  Put(Put(loaded, "outputs", D(new)), "status", S("done"))

\* Lines 186-188: a voice is configured in payload.tts.
HasVoice(payload) ==
    /\ IsDict(Get(payload, "tts"))
    /\ Truthy(Get(Get(payload, "tts").v, "voice"))

\* validate_manifest (lines 63-88) on a manifest the model can hold.
ValidateManifest(m) ==
    /\ Get(m, "project_id").t = "scalar"
    /\ Truthy(Get(m, "project_id"))
    /\ IsDict(Get(m, "payload"))

-----------------------------------------------------------------------------
(* Bounds of the model                                                      *)

\* Render jobs submitted for the project in one behaviour of Spec.
MaxJobs == 2

\* Render jobs submitted in one behaviour of SpecLive: one more than the
\* executor has workers.
MaxPoolJobs == 3

\* Payload edits (api_update_manifest_field) of one manifest.
MaxEdits == 1

\* Distinct values a run can measure for duration_sec.
MaxDuration == 1

\* config.py line 31: the default of RENDER_MAX_WORKERS.
RENDER_MAX_WORKERS == 2

Jobs == DOMAIN jpc

\* The raw payload.renderer.type values a submission carries.
RawTypes == {"local", "bogus", "JSON2Video", "shotstack"}

\* Outcomes of the uploads of one step: the blob store answers all of them
\* or none; without a bucket _s3_upload_file returns None at once.
Uploads(ready) ==
    IF ready THEN {[f \in UploadTargets |-> b] : b \in BOOLEAN}
    ELSE {[f \in UploadTargets |-> FALSE]}

-----------------------------------------------------------------------------
(* The manifests the handlers write                                         *)

\* The payload the create form sends, as far as the model follows it.
NewPayload(rt) ==
    [text |-> N(0), tts |-> D([voice |-> S("v1")]), renderer |-> D([type |-> S(rt)])]

\* create_project (main.py lines 784-792).
CreatedManifest(rt) ==
    [project_id |-> S("p1"), payload |-> D(NewPayload(rt)),
     status |-> S("created"), outputs |-> EmptyDict]

\* api_render (routes.py lines 963-972), the client sending a bare payload.
ServerManifest(rt) ==
    [project_id |-> S("p1"), payload |-> D(NewPayload(rt)),
     status |-> S("queued"), error |-> None, outputs |-> EmptyDict]

StatusOf(file) == IF file = NoFile THEN "absent" ELSE Get(file.v, "status").v

Idle == [pc |-> "idle", m |-> None]

RunningPcs == {"processing", "rendering", "rendered", "syncing", "failed"}
Running == {j \in Jobs : jpc[j] \in RunningPcs}

-----------------------------------------------------------------------------
(* Request handlers                                                         *)

\* create_project, the first step of create_submit and of api_create_json:
\* a new project directory with a manifest of status created.
CreateProject ==
    /\ req = Idle /\ local = NoFile /\ s3m = NoFile /\ nsub = 0
    /\ \E rt \in RawTypes : local' = D(CreatedManifest(rt))
    /\ req' = [pc |-> "created", m |-> None]
    /\ UNCHANGED <<s3m, s3ready, umvars, fnvars, queue, jpc, jm, active, nsub, log>>

\* start_render_async (render_video.py lines 581-598) on the manifest file
\* `file`: update_manifest({"status": "queued"}), then the job is handed to
\* _EXECUTOR and registered in _ACTIVE_JOBS.  net: the blob store answers.
StartRenderAsync(file, net) ==
    LET loaded == LoadForUpdate(file, s3m, s3ready, net)
        j      == nsub + 1
    IN  /\ j \in Jobs
        /\ file # NoFile
        /\ local' = D(MergePatch(loaded.v, [status |-> S("queued")]))
        /\ queue' = Append(queue, j)
        /\ jpc' = [jpc EXCEPT ![j] = "queued"]
        /\ active' = j
        /\ nsub' = j
        /\ UNCHANGED <<s3m, s3ready, umvars, fnvars, jm, log>>

\* create_submit after create_project: the render is queued.
CreateSubmit ==
    /\ req.pc = "created"
    /\ \E net \in BOOLEAN : StartRenderAsync(local, net)
    /\ req' = Idle

\* update_project_view (routes.py lines 561-582): re-render of a project
\* whose manifest is found.
UpdateProject ==
    /\ req = Idle
    /\ \E net \in BOOLEAN : StartRenderAsync(local, net)
    /\ req' = Idle

\* api_render (routes.py lines 940-984): the manifest sent by the client is
\* saved over whatever is there, then the render is queued.
ApiRender ==
    /\ req = Idle
    /\ \E rt \in RawTypes, net \in BOOLEAN :
          StartRenderAsync(D(ServerManifest(rt)), net)
    /\ req' = Idle

\* api_update_manifest_field (routes.py lines 796-840) with path
\* payload.text: read, set_by_path, write back.
PayloadEdit ==
    /\ local # NoFile
    /\ LET pl == PayloadOf(local.v)
           v  == IF "text" \in DOMAIN pl THEN pl["text"].v ELSE 0
       IN  /\ v < MaxEdits
           /\ local' = D(Put(local.v, "payload", D(Put(pl, "text", N(v + 1)))))
    /\ UNCHANGED <<s3m, s3ready, umvars, fnvars, jobvars>>

\* delete_project_local_only (main.py lines 454-488): sync to the blob
\* store (a failure is logged and ignored), then the directory is removed.
DeleteProject ==
    /\ local # NoFile
    /\ \E up \in Uploads(s3ready) :
          s3m' = SyncProject(local, s3m, s3ready, up).s3
    /\ local' = NoFile
    /\ UNCHANGED <<s3ready, umvars, fnvars, jobvars>>

\* api_status (routes.py lines 585-614): the manifest is read; a done
\* manifest without s3_synced is synced, and the manifest as read is saved
\* with s3_synced (or with the sync error).  Any other manifest is only read.
\* Here the poll is one step: nothing runs between its read and its save.
ApiStatus ==
    /\ req = Idle /\ local # NoFile
    /\ StatusOf(local) = "done"
    /\ ~Truthy(Get(local.v, "s3_synced"))
    /\ \E up \in Uploads(s3ready) :
          LET r == SyncProject(local, s3m, s3ready, up)
          IN  /\ local' = IF r.raised
                          THEN D(Put(local.v, "error", S("S3 sync error")))
                          ELSE D(Put(local.v, "s3_synced", True))
              /\ s3m' = r.s3
    /\ UNCHANGED <<s3ready, umvars, fnvars, jobvars>>

\* api_status with the workers running meanwhile.  The manifest is read; for
\* a done one without s3_synced the handler keeps what it read (m) while
\* sync_project_to_s3 works.
ApiStatusRead ==
    /\ req = Idle /\ local # NoFile
    /\ StatusOf(local) = "done"
    /\ ~Truthy(Get(local.v, "s3_synced"))
    /\ req' = [pc |-> "status", m |-> local]
    /\ UNCHANGED <<fsvars, umvars, fnvars, queue, jpc, jm, active, nsub, log>>

\* The end of sync_project_to_s3 and save_json(mpath, m): the manifest as
\* read, with s3_synced (or with the sync error), replaces the file.
ApiStatusWrite ==
    /\ req.pc = "status"
    /\ \E up \in Uploads(s3ready) :
          LET r == SyncProject(local, s3m, s3ready, up)
          IN  /\ local' = IF r.raised
                          THEN D(Put(req.m.v, "error", S("S3 sync error")))
                          ELSE D(Put(req.m.v, "s3_synced", True))
              /\ s3m' = r.s3
    /\ req' = Idle
    /\ UNCHANGED <<s3ready, umvars, fnvars, queue, jpc, jm, active, nsub, log>>

-----------------------------------------------------------------------------
(* render_video, as the job runner and api_create_json call it              *)

\* render_video up to the point where the renderer works (lines 106-123):
\* the manifest is loaded and the branch chosen.  A missing manifest makes
\* load_json return None and manifest.keys() raise; the renderers without
\* a usable provider raise at once; render_video_local keeps the loaded
\* manifest.
RenderBegin(file) ==
    IF file = NoFile
    THEN [raised |-> TRUE, m |-> S("AttributeError"), log |-> {}]
    ELSE LET rtype  == GetRenderer(PayloadOf(file.v))
             branch == DispatchBranch(rtype)
         IN  IF branch \notin LocalBranches
             THEN [raised |-> TRUE, m |-> S(ProviderError(branch)),
                   log |-> DispatchLog(rtype)]
             ELSE [raised |-> FALSE, m |-> file, log |-> DispatchLog(rtype)]

\* The messages of the exceptions render_video_local raises while it works
\* (no TTS voice, line 188; mux failure, line 346).
RenderErrors == {"mux failed"}

\* api_create_json (routes.py lines 490-503) after create_project:
\* render_video runs in the request thread.
SyncRenderBegin ==
    /\ req.pc = "created"
    /\ LET b == RenderBegin(local)
       IN  /\ log' = log \cup b.log
           /\ req' = IF b.raised THEN Idle ELSE [pc |-> "sync_render", m |-> b.m]
    /\ UNCHANGED <<fsvars, umvars, fnvars, queue, jpc, jm, active, nsub>>

\* render_video_local ends in the request thread: its manifest is saved and
\* mirrored (lines 406-438), or it raised and the request fails.
SyncRenderEnd ==
    /\ req.pc = "sync_render"
    /\ \/ \E up \in Uploads(s3ready), dur \in 1..MaxDuration :
            LET mem == LocalRenderManifest(req.m.v, up, dur)
            IN  /\ HasVoice(PayloadOf(req.m.v))
                /\ ValidateManifest(mem)
                /\ local' = D(mem)
                /\ s3m' = IF up["manifest"] THEN D(mem) ELSE s3m
       \/ UNCHANGED <<local, s3m>>
    /\ req' = Idle
    /\ UNCHANGED <<s3ready, umvars, fnvars, queue, jpc, jm, active, nsub, log>>

-----------------------------------------------------------------------------
(* _run_render_job (render_video.py lines 548-579)                          *)

\* ThreadPoolExecutor(max_workers=RENDER_MAX_WORKERS): a queued job is taken
\* only by a worker thread that runs no other job.
PoolNeverFull == TRUE
PoolHasFreeWorker == Cardinality(Running) < RENDER_MAX_WORKERS

\* A worker of _EXECUTOR takes the oldest queued job; _ensure_timeline_exists
\* (it raises when the project directory is gone), then
\* update_manifest({"status": "processing", "error": None}).
JobStart(j) ==
    /\ jpc[j] = "queued"
    /\ queue # <<>> /\ Head(queue) = j
    /\ PoolHasFreeWorker
    /\ queue' = Tail(queue)
    /\ IF local = NoFile
       THEN /\ jpc' = [jpc EXCEPT ![j] = "failed"]
            /\ jm' = [jm EXCEPT ![j] = S("FileNotFoundError")]
            /\ UNCHANGED local
       ELSE /\ \E net \in BOOLEAN :
                 local' = D(MergePatch(LoadForUpdate(local, s3m, s3ready, net).v,
                                       [status |-> S("processing"), error |-> None]))
            /\ jpc' = [jpc EXCEPT ![j] = "processing"]
            /\ UNCHANGED jm
    /\ UNCHANGED <<s3m, s3ready, umvars, fnvars, active, nsub, req, log>>

\* render_video(project_dir) starts (line 569).
JobRenderBegin(j) ==
    /\ jpc[j] = "processing"
    /\ LET b == RenderBegin(local)
       IN  /\ log' = log \cup b.log
           /\ jm' = [jm EXCEPT ![j] = b.m]
           /\ jpc' = [jpc EXCEPT ![j] = IF b.raised THEN "failed" ELSE "rendering"]
    /\ UNCHANGED <<fsvars, umvars, fnvars, queue, active, nsub, req>>

\* render_video_local ends: the manifest it loaded at its start is saved
\* with the outputs and status done and mirrored (lines 406-438), or it
\* raised.
JobRenderEnd(j) ==
    /\ jpc[j] = "rendering"
    /\ \/ \E up \in Uploads(s3ready), dur \in 1..MaxDuration :
            LET mem == LocalRenderManifest(jm[j].v, up, dur)
            IN  /\ HasVoice(PayloadOf(jm[j].v))
                /\ ValidateManifest(mem)
                /\ local' = D(mem)
                /\ s3m' = IF up["manifest"] THEN D(mem) ELSE s3m
                /\ jm' = [jm EXCEPT ![j] = D(mem)]
                /\ jpc' = [jpc EXCEPT ![j] = "rendered"]
       \/ \E msg \in RenderErrors :
            /\ jm' = [jm EXCEPT ![j] = S(msg)]
            /\ jpc' = [jpc EXCEPT ![j] = "failed"]
            /\ UNCHANGED <<local, s3m>>
    /\ UNCHANGED <<s3ready, umvars, fnvars, queue, active, nsub, req, log>>

\* update_manifest({"status": "done", "outputs": outputs}) up to its first
\* save (line 571; main.py lines 649-674).  No manifest to load raises
\* FileNotFoundError.  With a bucket the sync follows.
JobDonePatch(j) ==
    /\ jpc[j] = "rendered"
    /\ \E net \in BOOLEAN :
          LET loaded == LoadForUpdate(local, s3m, s3ready, net)
              patch  == [status |-> S("done"), outputs |-> Get(jm[j].v, "outputs")]
          IN  IF loaded = NoFile
              THEN /\ jm' = [jm EXCEPT ![j] = S("FileNotFoundError")]
                   /\ jpc' = [jpc EXCEPT ![j] = "failed"]
                   /\ UNCHANGED local
              ELSE /\ local' = D(MergePatch(loaded.v, patch))
                   /\ jm' = [jm EXCEPT ![j] =
                                IF s3ready THEN D(MergePatch(loaded.v, patch)) ELSE None]
                   /\ jpc' = [jpc EXCEPT ![j] =
                                IF s3ready THEN "syncing" ELSE "finished"]
    /\ UNCHANGED <<s3m, s3ready, umvars, fnvars, queue, active, nsub, req, log>>

\* The rest of that update_manifest (main.py lines 682-689):
\* sync_project_to_s3, then the merged manifest is saved once more.
JobDoneSync(j) ==
    /\ jpc[j] = "syncing"
    /\ \E up \in Uploads(s3ready) :
          LET r == SyncTail(jm[j].v, local, s3m, s3ready, up)
          IN  local' = r.local /\ s3m' = r.s3
    /\ jm' = [jm EXCEPT ![j] = None]
    /\ jpc' = [jpc EXCEPT ![j] = "finished"]
    /\ UNCHANGED <<s3ready, umvars, fnvars, queue, active, nsub, req, log>>

\* The patch of the except branch (line 576).
ErrorPatchMessageOnly(e) == [error |-> e]
ErrorPatch(e) == [status |-> S("error"), error |-> e]

\* The except branch (lines 574-579): update_manifest({"status": "error",
\* "error": str(e)}); an exception of that call is swallowed.
JobErrorPatch(j) ==
    /\ jpc[j] = "failed"
    /\ \E net \in BOOLEAN :
          LET loaded == LoadForUpdate(local, s3m, s3ready, net)
          IN  local' = IF loaded = NoFile THEN local
                       ELSE D(MergePatch(loaded.v, ErrorPatch(jm[j])))
    /\ jm' = [jm EXCEPT ![j] = None]
    /\ jpc' = [jpc EXCEPT ![j] = "finished"]
    /\ UNCHANGED <<s3m, s3ready, umvars, fnvars, queue, active, nsub, req, log>>

JobStep(j) ==
    \/ JobStart(j)
    \/ JobRenderBegin(j)
    \/ JobRenderEnd(j)
    \/ JobDonePatch(j)
    \/ JobDoneSync(j)
    \/ JobErrorPatch(j)

-----------------------------------------------------------------------------
(* The job runner with its request handlers                                 *)

UmOff ==
    /\ um_pc = "off" /\ um_before = NoFile /\ um_loaded = NoFile
    /\ um_patch = <<>> /\ um_mem = NoFile

\* No function of the render pipeline is followed.
Off == [pc |-> "off"]
FnOff == rvl = Off /\ syn = Off /\ cap = Off /\ sgt = Off /\ pol = Off

Init ==
    /\ local = NoFile /\ s3m = NoFile
    /\ s3ready \in BOOLEAN
    /\ UmOff /\ FnOff
    /\ queue = <<>>
    /\ jpc = [j \in 1..MaxJobs |-> "idle"]
    /\ jm = [j \in 1..MaxJobs |-> None]
    /\ active = 0 /\ nsub = 0
    /\ req = Idle
    /\ log = {}

Next ==
    \/ CreateProject
    \/ CreateSubmit
    \/ UpdateProject
    \/ ApiRender
    \/ PayloadEdit
    \/ DeleteProject
    \/ ApiStatus
    \/ SyncRenderBegin
    \/ SyncRenderEnd
    \/ \E j \in Jobs : JobStep(j)

Spec == Init /\ [][Next]_vars

-----------------------------------------------------------------------------
(* The executor alone: submissions and workers, with the workers scheduled  *)

InitPool ==
    /\ local = NoFile /\ s3m = NoFile
    /\ s3ready \in BOOLEAN
    /\ UmOff /\ FnOff
    /\ queue = <<>>
    /\ jpc = [j \in 1..MaxPoolJobs |-> "idle"]
    /\ jm = [j \in 1..MaxPoolJobs |-> None]
    /\ active = 0 /\ nsub = 0
    /\ req = Idle
    /\ log = {}

NextPool ==
    \/ CreateProject
    \/ CreateSubmit
    \/ UpdateProject
    \/ \E j \in Jobs : JobStep(j)

\* The worker threads keep running: while some job can take a step, a job
\* takes a step.
SpecLive ==
    InitPool /\ [][NextPool]_vars /\ WF_vars(\E j \in Jobs : JobStep(j))

-----------------------------------------------------------------------------
(* Properties of the job runner                                             *)

\* Job j takes a step of _run_render_job.
JobMoves(j) == jpc[j] \in RunningPcs \cup {"queued"} /\ jpc'[j] # jpc[j]

\* Job j returns.
JobReturns(j) == jpc[j] \in RunningPcs /\ jpc'[j] = "finished"

AllowedStatusSteps ==
    {<<"created", "queued">>, <<"queued", "processing">>,
     <<"processing", "done">>, <<"processing", "error">>,
     <<"done", "queued">>, <<"error", "queued">>}

\* C1: every change of the status of an existing manifest is one of
\* created->queued, queued->processing, processing->done, processing->error,
\* done->queued, error->queued.
C1_StatusSteps ==
    [][(local # NoFile /\ local' # NoFile /\ StatusOf(local') # StatusOf(local))
          => <<StatusOf(local), StatusOf(local')>> \in AllowedStatusSteps]_vars

\* The manifest a job leaves behind is terminal: done with an outputs
\* mapping, or error with a message.
TerminalManifest(file) ==
    /\ file # NoFile
    /\ \/ StatusOf(file) = "done" /\ IsDict(Get(file.v, "outputs"))
       \/ StatusOf(file) = "error" /\ Truthy(Get(file.v, "error"))

C3_OneJobPerProject == Cardinality(Running) <= 1

\* What api_status returns of the manifest (routes.py lines 608-613).
PollView(file) ==
    IF file = NoFile THEN <<>>
    ELSE [k \in {"status", "error", "outputs"} |-> Get(file.v, k)]

\* C5: once a later submission exists, a step of an earlier job that is
\* still executing leaves what a status poll returns unchanged.
C5_PollReflectsLatest ==
    [][\A j \in Jobs :
          (jpc[j] \in RunningPcs /\ JobMoves(j) /\ j # active)
              => PollView(local') = PollView(local)]_vars

\* C8: when render_video_local writes its result, the payload of the
\* manifest stays as the write finds it, whatever was edited since the
\* render loaded the manifest.
C8_RenderKeepsPayload ==
    [][\A j \in Jobs :
          (jpc[j] = "rendering" /\ jpc'[j] = "rendered" /\ local # NoFile)
              => Get(local'.v, "payload") = Get(local.v, "payload")]_vars

\* C10: render_video on a manifest asking for an unsupported renderer type
\* renders through render_video_local and logs the warning.
C10_UnknownRendererWarns ==
    [][\A j \in Jobs :
          ( /\ jpc[j] = "processing" /\ jpc'[j] # "processing"
            /\ local # NoFile
            /\ RequestedType(PayloadOf(local.v)) \notin SUPPORTED_RENDERERS )
          => (jpc'[j] = "rendering" /\ "unknown_renderer_warning" \in log')]_vars

\* The messages of the providers that cannot be used.
ProviderErrors == {S(ProviderError(b)) : b \in UnconfiguredBranches \cup KeylessBranches}

\* render_video of job j is called on a manifest asking for a supported
\* renderer other than local.
AsksProvider(j) ==
    /\ jpc[j] = "processing" /\ jpc'[j] # "processing"
    /\ local # NoFile
    /\ RequestedType(PayloadOf(local.v)) \in SUPPORTED_RENDERERS \ {"local"}

\* Job j returns after a provider error.
ReturnsFromProviderError(j) ==
    jpc[j] = "failed" /\ jm[j] \in ProviderErrors /\ JobReturns(j)

-----------------------------------------------------------------------------
(* Properties of the executor                                               *)

\* C4: never more than RENDER_MAX_WORKERS jobs execute at once; a
\* submission returns with the status queued and the job queued, not
\* started; every queued job is eventually started by a worker (the queue
\* of jobs not yet started empties again and again).
C4_BoundedPool ==
    /\ [](Cardinality(Running) <= RENDER_MAX_WORKERS)
    /\ [][nsub' # nsub =>
            /\ jpc'[nsub'] = "queued"
            /\ StatusOf(local') = "queued"
            /\ req' = Idle]_vars
    /\ []<>(queue = <<>>)

\* The pool is full of executing jobs, an earlier job has returned.
C4_Witness ==
    /\ Cardinality(Running) = RENDER_MAX_WORKERS
    /\ \E j \in Jobs : jpc[j] = "finished"

-----------------------------------------------------------------------------
(* update_manifest and update_manifest_payload on stored manifests          *)

\* The manifests a project directory or the bucket holds before a call:
\* outputs and payload of every shape the merge distinguishes.  A payload
\* that is no mapping is what api_update_manifest_field leaves after a set
\* of the path "payload" (routes.py lines 796-840).
StoredOutputs ==
    {EmptyDict, D([srt |-> S("path")]), L(<<S("path")>>), S("pending")}
StoredPayloads ==
    {D([text |-> N(0), renderer |-> D([type |-> S("local"), voice |-> S("v1")])]),
     D([text |-> N(1)]),
     S("draft")}
StoredManifests ==
    {[project_id |-> S("p1"), title |-> S(t), status |-> S("created"),
      outputs |-> o, payload |-> pl] :
        t \in {"A", "B"}, o \in StoredOutputs, pl \in StoredPayloads}

StoredManifestFiles == {D(m) : m \in StoredManifests}

\* The patches handed to update_manifest.
Patches ==
    {[status |-> S("queued")],
     [status |-> S("processing"), error |-> None],
     [status |-> S("done"), outputs |-> D([mp4_16x9 |-> S("path")])],
     [outputs |-> L(<<>>)],
     [payload |-> D([renderer |-> D([type |-> S("bogus")])])],
     [title |-> D([pl |-> S("T")])]}

\* The payload_updates handed to update_manifest_payload.
PayloadPatches ==
    {[text |-> N(2)], [renderer |-> D([type |-> S("bogus")])]}

\* The skeleton update_manifest_payload writes when there is no manifest
\* (main.py lines 727-735).
SkeletonManifest ==
    [project_id |-> S("p1"), title |-> S("News video"), payload |-> EmptyDict,
     status |-> S("created"), outputs |-> EmptyDict, logs |-> L(<<>>)]

\* update_manifest(project_dir, patch) up to the save of line 674, or its
\* FileNotFoundError.
UpdateManifestMerge ==
    /\ um_pc = "ready"
    /\ \E patch \in Patches, net \in BOOLEAN :
          LET loaded == LoadForUpdate(local, s3m, s3ready, net)
          IN  /\ um_before' = local
              /\ um_loaded' = loaded
              /\ um_patch' = patch
              /\ IF loaded = NoFile
                 THEN /\ um_pc' = "raised"
                      /\ um_mem' = NoFile
                      /\ UNCHANGED local
                 ELSE /\ um_mem' = D(MergePatch(loaded.v, patch))
                      /\ local' = D(MergePatch(loaded.v, patch))
                      /\ um_pc' = IF ShouldSync(patch) /\ s3ready
                                  THEN "sync" ELSE "returned"
    /\ UNCHANGED <<s3m, s3ready, jobvars, fnvars>>

\* The rest of update_manifest (lines 677-691).
UpdateManifestSync ==
    /\ um_pc = "sync"
    /\ \E up \in Uploads(s3ready) :
          LET r == SyncTail(um_mem.v, local, s3m, s3ready, up)
          IN  local' = r.local /\ s3m' = r.s3
    /\ um_pc' = "returned"
    /\ UNCHANGED <<s3ready, um_before, um_loaded, um_patch, um_mem, jobvars, fnvars>>

\* update_manifest_payload(project_dir, payload_updates), lines 697-743.
\* A stored payload that is no dict makes payload.update raise.
UpdateManifestPayload ==
    /\ um_pc = "ready"
    /\ \E pp \in PayloadPatches, net \in BOOLEAN :
          LET got    == LoadForUpdate(local, s3m, s3ready, net)
              loaded == IF got = NoFile THEN D(SkeletonManifest) ELSE got
              pl     == IF "payload" \in DOMAIN loaded.v
                        THEN loaded.v["payload"] ELSE EmptyDict
          IN  /\ um_before' = local
              /\ um_loaded' = loaded
              /\ um_patch' = [payload |-> D(pp)]
              /\ IF IsDict(pl)
                 THEN /\ um_mem' = D(Put(loaded.v, "payload", D(DictUpdate(pl.v, pp))))
                      /\ local' = D(Put(loaded.v, "payload", D(DictUpdate(pl.v, pp))))
                      /\ um_pc' = "returned_payload"
                 ELSE /\ um_mem' = NoFile
                      /\ um_pc' = "raised"
                      /\ UNCHANGED local
    /\ UNCHANGED <<s3m, s3ready, jobvars, fnvars>>

InitPatch ==
    /\ local \in StoredManifestFiles \cup {NoFile}
    /\ s3m \in StoredManifestFiles \cup {NoFile}
    /\ s3ready \in BOOLEAN
    /\ (~s3ready => s3m = NoFile)
    /\ um_pc = "ready" /\ um_before = NoFile /\ um_loaded = NoFile
    /\ um_patch = <<>> /\ um_mem = NoFile
    /\ FnOff
    /\ queue = <<>> /\ jpc = <<>> /\ jm = <<>>
    /\ active = 0 /\ nsub = 0
    /\ req = Idle
    /\ log = {}

NextPatch ==
    \/ UpdateManifestMerge
    \/ UpdateManifestSync
    \/ UpdateManifestPayload

SpecPatch == InitPatch /\ [][NextPatch]_vars

-----------------------------------------------------------------------------
(* Properties of update_manifest                                            *)

\* x is stored overlaid with patched, one level deep: the entries of
\* patched as they are, the other entries of stored kept.
OverlayOf(x, stored, patched) ==
    /\ IsDict(x)
    /\ DOMAIN x.v = DOMAIN stored.v \cup DOMAIN patched.v
    /\ \A e \in DOMAIN patched.v : x.v[e] = patched.v[e]
    /\ \A e \in DOMAIN stored.v \ DOMAIN patched.v : x.v[e] = stored.v[e]

\* C6: in the manifest update_manifest saves, every key of the patch holds
\* the stored mapping overlaid with the patch's mapping when both are
\* mappings, and the patch's value otherwise.
C6_ShallowMerge ==
    um_pc \in {"sync", "returned"} /\ um_loaded # NoFile /\ um_mem # NoFile =>
        \A k \in DOMAIN um_patch :
            IF IsDict(um_patch[k]) /\ k \in DOMAIN um_loaded.v /\ IsDict(um_loaded.v[k])
            THEN OverlayOf(um_mem.v[k], um_loaded.v[k], um_patch[k])
            ELSE um_mem.v[k] = um_patch[k]

\* A patch of a stored mapping has been merged: the stored entry the patch
\* does not name is kept, the nested mapping it names is replaced whole.
C6_Witness ==
    /\ um_pc = "returned"
    /\ um_loaded # NoFile /\ um_mem # NoFile
    /\ "payload" \in DOMAIN um_patch
    /\ IsDict(um_loaded.v["payload"])
    /\ "renderer" \in DOMAIN um_loaded.v["payload"].v
    /\ um_mem.v["payload"].v["text"] = N(0)
    /\ um_mem.v["payload"].v["renderer"] = D([type |-> S("bogus")])

\* The entries of mapping now that patched does not name are those of
\* mapping before.
KeepsUnnamed(before, now, patched) ==
    \A k \in DOMAIN before \ DOMAIN patched : k \in DOMAIN now /\ now[k] = before[k]

\* C7: after update_manifest or update_manifest_payload returns, every
\* top-level key and every payload key the patch does not name has the
\* value of the local manifest file of before the call.
C7_LocalFileIsTruth ==
    (um_pc \in {"returned", "returned_payload"} /\ um_before # NoFile /\ local # NoFile) =>
        /\ KeepsUnnamed(um_before.v, local.v, um_patch)
        /\ ( /\ "payload" \in DOMAIN um_patch
             /\ IsDict(um_patch["payload"])
             /\ IsDict(Get(um_before.v, "payload"))
             /\ IsDict(Get(local.v, "payload")) )
           => KeepsUnnamed(um_before.v["payload"].v, local.v["payload"].v,
                           um_patch["payload"].v)

-----------------------------------------------------------------------------
(* rerender_project: render_video_local run twice on one manifest           *)

Runs == 1..2

\* payload.formats as stored: missing, a list, a bare string, an unknown
\* format.
StoredFormats ==
    {None, L(<<S("16x9"), S("1x1")>>), S("9x16"), L(<<S("4x3")>>)}

\* The outputs a manifest holds before the first run: none, or those of an
\* older render.
PriorOutputs == {EmptyDict, D([mp4_1x1 |-> S("path"), srt |-> S("path")])}

RerenderManifest(fm, outs) ==
    [project_id |-> S("p1"),
     payload |-> D([text |-> N(0), tts |-> D([voice |-> S("v1")]), formats |-> fm]),
     status |-> S("created"), outputs |-> outs]

\* The files one run of render_video_local uploads.
RunFiles(payload) ==
    {Mp4Key(f) : f \in Formats(payload)} \cup {"srt", "ass", "audio", "manifest"}

\* Outcomes of the uploads of one run, each upload on its own.
RunUploads(ready, payload) ==
    IF ready
    THEN {[f \in UploadTargets |-> f \in ok] : ok \in SUBSET RunFiles(payload)}
    ELSE {[f \in UploadTargets |-> FALSE]}

\* Run r of render_video_local on the manifest as it is now: it returns
\* manifest["outputs"], or text-to-speech or the mux raises.
Rerender(r) ==
    /\ jpc[r] = "idle"
    /\ \A q \in Runs : q < r => jpc[q] = "returned"
    /\ \/ \E up \in RunUploads(s3ready, PayloadOf(local.v)), dur \in 1..MaxDuration :
            LET mem == LocalRenderManifest(local.v, up, dur)
            IN  /\ HasVoice(PayloadOf(local.v))
                /\ ValidateManifest(mem)
                /\ local' = D(mem)
                /\ s3m' = IF up["manifest"] THEN D(mem) ELSE s3m
                /\ jm' = [jm EXCEPT ![r] = mem["outputs"]]
                /\ jpc' = [jpc EXCEPT ![r] = "returned"]
                /\ log' = log \cup {<<r, f>> : f \in {g \in UploadTargets : up[g]}}
       \/ /\ jpc' = [jpc EXCEPT ![r] = "raised"]
          /\ UNCHANGED <<local, s3m, jm, log>>
    /\ UNCHANGED <<s3ready, umvars, fnvars, queue, active, nsub, req>>

InitRerender ==
    /\ local \in {D(RerenderManifest(fm, o)) : fm \in StoredFormats, o \in PriorOutputs}
    /\ s3m = NoFile
    /\ s3ready \in BOOLEAN
    /\ UmOff /\ FnOff
    /\ queue = <<>>
    /\ jpc = [r \in Runs |-> "idle"]
    /\ jm = [r \in Runs |-> None]
    /\ active = 0 /\ nsub = 0
    /\ req = Idle
    /\ log = {}

NextRerender == \E r \in Runs : Rerender(r)

SpecRerender == InitRerender /\ [][NextRerender]_vars

\* Both runs returned their outputs.
BothReturned == \A r \in Runs : jpc[r] = "returned"

\* The output files whose upload returned a url in run r.
Uploaded(r) == {f \in UploadTargets \ {"manifest"} : <<r, f>> \in log}

\* C9: the outputs of the second run hold every key of the first run's;
\* the two key sets are equal when every upload that returned a url in the
\* second run returned one in the first (always so without a bucket).
C9_RerenderKeys ==
    BothReturned =>
        /\ DOMAIN jm[1].v \subseteq DOMAIN jm[2].v
        /\ Uploaded(2) \subseteq Uploaded(1) => DOMAIN jm[2].v = DOMAIN jm[1].v

\* C9 as stated: the two runs give the same key set.
C9_SameKeysAlways ==
    BothReturned => DOMAIN jm[2].v = DOMAIN jm[1].v

\* Two runs returned, with uploads that failed in one and not in the other.
C9_Witness ==
    /\ BothReturned
    /\ Uploaded(1) # {} /\ Uploaded(2) # Uploaded(1)
    /\ Uploaded(2) \subseteq Uploaded(1)
    /\ DOMAIN jm[2].v = DOMAIN jm[1].v

\* ------------------------------------------------------------------------
\* The visual track of render_video_local (SpecVisual).
\*
\* Times are integer milliseconds: 1e-3 s is 1, the image default of 4.5 s
\* is 4500.  One behaviour is one call of render_video_local on fixed media
\* items, narration length, transition settings and tool outcomes; rvl holds
\* the locals of the per-format loop.
\* ------------------------------------------------------------------------

\* sum(durations), added up by halves
RECURSIVE SumDur(_)
SumDur(ds) ==
    IF ds = <<>> THEN 0
    ELSE IF Len(ds) = 1 THEN ds[1]
    ELSE LET h == Len(ds) \div 2
         IN SumDur(SubSeq(ds, 1, h)) + SumDur(SubSeq(ds, h + 1, Len(ds)))

Max2(a, b) == IF a >= b THEN a ELSE b

Min2(a, b) == IF a <= b THEN a ELSE b

\* Bounds of the inputs.
MaxMedia == 2
MaxFormats == 2

DefaultImageDur == 4500
ShortClipDur == 300
SafetyIterCap == 200
Eps == 1

\* What encoding one media item gives: (ok, dur) of _make_image_segment at
\* 4.5 s, of _make_video_segment (dur is ffprobe's, 0 when the probe fails),
\* and (False, 0) for an item of another type.
MediaKinds ==
    { [type |-> "image", ok |-> TRUE,  dur |-> DefaultImageDur],
      [type |-> "image", ok |-> FALSE, dur |-> 0],
      [type |-> "video", ok |-> TRUE,  dur |-> ShortClipDur],
      [type |-> "video", ok |-> TRUE,  dur |-> 0],
      [type |-> "other", ok |-> FALSE, dur |-> 0] }

MediaLists == UNION {[1..n -> MediaKinds] : n \in 0..MaxMedia}

AudioDurations == {0, 4000, 12300}

TransitionDurations == {0, 50, 250, 1500, 3000}

\* prepare_media_segments: the items encoded with ok and dur > 0, in input
\* order; a segment is named by the index of its item.
RECURSIVE KeptFrom(_, _)
KeptFrom(media, i) ==
    IF i > Len(media) THEN <<>>
    ELSE (IF media[i].ok /\ media[i].dur > 0 THEN <<i>> ELSE <<>>)
             \o KeptFrom(media, i + 1)

\* A preparation that never looks at the first item.
PrepareMediaSegmentsFromSecond(media) == KeptFrom(media, 2)
PrepareMediaSegments(media) == KeptFrom(media, 1)

SegDurations(media, kept) == [k \in 1..Len(kept) |-> media[kept[k]].dur]

\* _effective_visual_duration, which ignores every overlap.
EffectiveNoOverlap(durations, use_xfade, xfade_d) == Max2(0, SumDur(durations))

\* _effective_visual_duration
EffectiveVisualDuration(durations, use_xfade, xfade_d) ==
    IF use_xfade /\ Len(durations) >= 2
    THEN Max2(0, SumDur(durations) - xfade_d * (Len(durations) - 1))
    ELSE Max2(0, SumDur(durations))

\* The overlap _xfade_concat applies for a configured duration.
XfadeClamp(duration) == Max2(100, Min2(2000, duration))

\* _make_color_segment never writes less than 0.2 s.
ColorSegmentDur(duration) == Max2(200, duration)

\* The filler of the reconciliation loop and what the loop reads back as its
\* duration: ffprobe's value, or 1.0 s when the probe gives nothing.
LoopFillerDur(xfade_d, probe_ok) ==
    IF probe_ok
    THEN ColorSegmentDur(Max2(1000, (IF xfade_d = 0 THEN 500 ELSE xfade_d) + 200))
    ELSE 1000

\* The black filler written when no media item survived.
EmptyFillerDur(A) == ColorSegmentDur(Max2(1000, IF A = 0 THEN 3000 ELSE A))

VisualInputs ==
    [media : MediaLists, A : AudioDurations, use_xfade : BOOLEAN,
     xfade_d : TransitionDurations, probe_ok : BOOLEAN,
     formats : 1..MaxFormats]

\* Three clips of 4 s joined with a crossfade of 1 s, under a narration of
\* 9.5 s and of 11 s.
ScenarioInputs ==
    [media : {[k \in 1..3 |-> [type |-> "video", ok |-> TRUE, dur |-> 4000]]},
     A : {9500, 11000}, use_xfade : {TRUE}, xfade_d : {1000},
     probe_ok : BOOLEAN, formats : 1..MaxFormats]

\* The state of a call at the head of the per-format loop.
VisualStart(in) ==
    [pc |-> "format", in |-> in, fmt |-> 1, seg_paths |-> <<>>,
     durations |-> <<>>, last_seg |-> 0, last_dur |-> 0, safety_iter |-> 0,
     eff |-> 0,
     applied |-> 0, filler |-> 0, rendered |-> 0, error |-> "none"]

\* The head of one format: prepare_media_segments, the effective duration,
\* and the black filler when nothing survived.
PrepareFormat ==
    /\ rvl.pc = "format"
    /\ LET kept == PrepareMediaSegments(rvl.in.media)
           ds == SegDurations(rvl.in.media, kept)
           eff == EffectiveVisualDuration(ds, rvl.in.use_xfade, rvl.in.xfade_d)
       IN rvl' = IF kept = <<>>
                 THEN [rvl EXCEPT !.pc = "visual", !.seg_paths = <<>>,
                                  !.durations = <<>>, !.eff = eff,
                                  !.safety_iter = 0, !.applied = 0,
                                  !.filler = EmptyFillerDur(rvl.in.A)]
                 ELSE [rvl EXCEPT !.pc = "loop", !.seg_paths = kept,
                                  !.durations = ds, !.eff = eff,
                                  !.last_seg = kept[Len(kept)],
                                  !.last_dur = ds[Len(ds)],
                                  !.safety_iter = 0, !.applied = 0,
                                  !.filler = 0]
    /\ UNCHANGED <<fsvars, umvars, jobvars, syn, cap, sgt, pol>>

\* A loop that goes on until the track is strictly longer than the narration.
LoopGuardStrictlyLonger == rvl.eff <= rvl.in.A /\ rvl.safety_iter < SafetyIterCap
LoopGuard == rvl.eff + Eps < rvl.in.A /\ rvl.safety_iter < SafetyIterCap

\* One pass of the while loop: a filler when last_dur does not exceed the
\* overlap (last_dur becomes the filler's duration, last_seg stays), last_seg
\* with last_dur otherwise.  Segment 0 names a filler.
LoopPass ==
    /\ rvl.pc = "loop"
    /\ LoopGuard
    /\ LET overlap == IF rvl.in.use_xfade THEN rvl.in.xfade_d ELSE 0
           fill == rvl.last_dur <= overlap
           d_new == LoopFillerDur(rvl.in.xfade_d, rvl.in.probe_ok)
           segs == Append(rvl.seg_paths,
                          IF fill THEN 0 ELSE rvl.last_seg)
           ds == Append(rvl.durations, IF fill THEN d_new ELSE rvl.last_dur)
       IN rvl' = [rvl EXCEPT !.seg_paths = segs, !.durations = ds,
                             !.last_dur = IF fill THEN d_new ELSE @,
                             !.eff = EffectiveVisualDuration(ds, rvl.in.use_xfade,
                                                             rvl.in.xfade_d),
                             !.safety_iter = @ + 1]
    /\ UNCHANGED <<fsvars, umvars, jobvars, syn, cap, sgt, pol>>

\* The loop is left and the segments are joined: by _xfade_concat with its
\* own clamped overlap, or end to end by _concat_videos.
Assemble ==
    /\ rvl.pc = "loop"
    /\ ~LoopGuard
    /\ rvl' = [rvl EXCEPT !.pc = "visual",
                          !.applied = IF rvl.in.use_xfade /\ Len(rvl.seg_paths) > 1
                                      THEN XfadeClamp(rvl.in.xfade_d) ELSE 0]
    /\ UNCHANGED <<fsvars, umvars, jobvars, syn, cap, sgt, pol>>

\* A mux whose failure is logged and the next format rendered all the same.
MuxFormatNonFatal ==
    /\ rvl.pc = "visual"
    /\ \E mux_ok \in BOOLEAN :
          rvl' = [rvl EXCEPT !.rendered = IF mux_ok THEN @ + 1 ELSE @,
                             !.error = IF mux_ok THEN @ ELSE "mux failed",
                             !.fmt = @ + 1,
                             !.pc = IF rvl.fmt = rvl.in.formats
                                    THEN "returned" ELSE "format"]
    /\ UNCHANGED <<fsvars, umvars, jobvars, syn, cap, sgt, pol>>

\* _mux_video_audio of the format: its output is written and the next format
\* starts, or RuntimeError leaves the function.
MuxFormat ==
    /\ rvl.pc = "visual"
    /\ \E mux_ok \in BOOLEAN :
          rvl' = IF mux_ok
                 THEN [rvl EXCEPT !.rendered = @ + 1, !.fmt = @ + 1,
                                  !.pc = IF rvl.fmt = rvl.in.formats
                                         THEN "returned" ELSE "format"]
                 ELSE [rvl EXCEPT !.pc = "raised", !.error = "mux failed"]
    /\ UNCHANGED <<fsvars, umvars, jobvars, syn, cap, sgt, pol>>

\* The job whose render_video call the specification follows.
VisualJob == 1

\* The manifest of that job when render_video_local starts: _run_render_job
\* has set it to processing.
ProcessingManifest ==
    MergePatch(CreatedManifest("local"), [status |-> S("processing"), error |-> None])

\* render_video_local leaves: after the last format its manifest is saved
\* with the outputs and status done (lines 406-416) and returned to
\* _run_render_job, or the exception of the mux reaches _run_render_job.
RenderLeave ==
    /\ rvl.pc \in {"returned", "raised"}
    /\ jpc[VisualJob] = "rendering"
    /\ rvl' = [rvl EXCEPT !.pc = "left"]
    /\ IF rvl.pc = "returned"
       THEN \E dur \in 1..MaxDuration :
              LET mem == LocalRenderManifest(jm[VisualJob].v,
                                             [f \in UploadTargets |-> FALSE], dur)
              IN  /\ local' = D(mem)
                  /\ jm' = [jm EXCEPT ![VisualJob] = D(mem)]
                  /\ jpc' = [jpc EXCEPT ![VisualJob] = "rendered"]
       ELSE /\ jm' = [jm EXCEPT ![VisualJob] = S(rvl.error)]
            /\ jpc' = [jpc EXCEPT ![VisualJob] = "failed"]
            /\ UNCHANGED local
    /\ UNCHANGED <<s3m, s3ready, umvars, syn, cap, sgt, pol, queue, active, nsub, req, log>>

InitVisual ==
    /\ rvl \in {VisualStart(in) : in \in VisualInputs \cup ScenarioInputs}
    /\ syn = Off /\ cap = Off /\ sgt = Off /\ pol = Off
    /\ local = D(ProcessingManifest) /\ s3m = NoFile /\ s3ready = FALSE
    /\ UmOff
    /\ queue = <<>>
    /\ jpc = <<"rendering">> /\ jm = <<D(ProcessingManifest)>>
    /\ active = 1 /\ nsub = 1
    /\ req = Idle
    /\ log = {}

NextVisual ==
    \/ PrepareFormat
    \/ LoopPass
    \/ Assemble
    \/ MuxFormat
    \/ RenderLeave
    \/ JobDonePatch(VisualJob)
    \/ JobErrorPatch(VisualJob)
    \/ DeleteProject

SpecVisual == InitVisual /\ [][NextVisual]_vars

\* The length of the chain _xfade_concat builds: the offset of the last
\* join, as the loop accumulates it, plus the last segment.
RECURSIVE XfadeLength(_, _, _, _)
XfadeLength(durations, d, k, offset_acc) ==
    LET offset == Max2(0, offset_acc + Max2(0, durations[k]) - d)
    IN IF k = Len(durations) - 1
       THEN offset + durations[k + 1]
       ELSE XfadeLength(durations, d, k + 1,
                        offset_acc + Max2(0, durations[k]) - d)

\* The length of the joined track: the black filler, the xfade chain with the
\* applied overlap, or the segments end to end.
AssembledLength ==
    IF rvl.seg_paths = <<>> THEN rvl.filler
    ELSE IF rvl.applied > 0 THEN XfadeLength(rvl.durations, rvl.applied, 1, 0)
    ELSE SumDur(rvl.durations)

\* The loop of the call ended by its condition, not by the cap.
EndedNormally == rvl.eff + Eps >= rvl.in.A

\* The precondition of the reconciliation: no overlap, or an overlap below
\* the shortest surviving segment.
OverlapBelowSegments ==
    \/ ~rvl.in.use_xfade
    \/ \A k \in 1..Len(rvl.durations) : rvl.in.xfade_d < rvl.durations[k]

\* The effective duration as the reconciliation defines it: the sum of the
\* durations less one overlap for each join.
ClaimedEffective ==
    IF rvl.in.use_xfade /\ Len(rvl.durations) >= 2
    THEN SumDur(rvl.durations) - rvl.in.xfade_d * (Len(rvl.durations) - 1)
    ELSE SumDur(rvl.durations)

\* C12: the reconciliation loop makes at most 200 passes, and when it is left
\* with the cap not reached the effective duration of the segments is at
\* least the narration's less 1 ms.
C12_LoopTerminates ==
    /\ rvl.pc # "off" => rvl.safety_iter <= SafetyIterCap
    /\ (rvl.pc = "visual" /\ rvl.seg_paths # <<>> /\ OverlapBelowSegments
            /\ rvl.safety_iter < SafetyIterCap)
         => ClaimedEffective + Eps >= rvl.in.A

\* A loop that made several passes and ended by its condition.
C12_Witness ==
    /\ rvl.pc = "visual" /\ rvl.seg_paths # <<>> /\ OverlapBelowSegments
    /\ rvl.in.use_xfade /\ rvl.in.xfade_d > 0
    /\ rvl.safety_iter >= 3 /\ rvl.safety_iter < SafetyIterCap
    /\ ClaimedEffective + Eps >= rvl.in.A

\* The loop stands at its cap with the track still shorter than the narration.
CapHitShort ==
    /\ rvl.pc = "loop"
    /\ rvl.safety_iter = SafetyIterCap
    /\ rvl.eff + Eps < rvl.in.A

\* C13: when the loop reaches its cap with the effective duration still below
\* the narration's, the call raises; it does not go on to join and mux a
\* track that is too short.
C13_CapHitRaises ==
    [][CapHitShort => rvl'.pc = "raised"]_vars

\* C14: whatever transition duration is configured, the joined visual track
\* (the segment durations less the overlap _xfade_concat applies at each
\* join) is at least as long as the narration less 1 ms; stated for the
\* calls whose loop ended by its condition.
C14_TrackCoversNarration ==
    (rvl.pc = "visual" /\ EndedNormally) => AssembledLength + Eps >= rvl.in.A

\* The job returns from the except branch entered by a mux failure.
ReturnsFromMuxError ==
    /\ jpc[VisualJob] = "failed" /\ jm[VisualJob] = S("mux failed")
    /\ JobReturns(VisualJob)

\* The outputs of the formats before the failing one, and no other, exist.
NoFurtherFormat == rvl.rendered = rvl.fmt - 1 /\ rvl.fmt <= rvl.in.formats

Survives(i) == rvl.in.media[i].ok /\ rvl.in.media[i].dur > 0

\* Item i has a known type and its encode succeeded.
Encoded(i) == rvl.in.media[i].ok

\* segs and ds name exactly the items of keep, in input order, with the
\* durations of their encodes.
ExactlyInOrder(segs, ds, keep) ==
    /\ {segs[k] : k \in 1..Len(segs)} = keep
    /\ \A k, l \in 1..Len(segs) : k < l => segs[k] < segs[l]
    /\ Len(ds) = Len(segs)
    /\ \A k \in 1..Len(segs) : ds[k] = rvl.in.media[segs[k]].dur

\* The head of a format has run.
Prepared == rvl.pc = "format" /\ rvl'.pc # "format"

\* C16: failed encodes fail no render: the head of every format leaves as
\* segments exactly the items encoded with a duration above zero, in input
\* order; with none, the loop is skipped and one black filler at least as
\* long as the narration is the track.
C16_SurvivorsInOrder ==
    [][Prepared =>
         /\ rvl'.pc \in {"loop", "visual"} /\ rvl'.error = "none"
         /\ ExactlyInOrder(rvl'.seg_paths, rvl'.durations,
                           {i \in 1..Len(rvl.in.media) : Survives(i)})
         /\ rvl'.seg_paths = <<>> =>
               /\ rvl'.pc = "visual" /\ rvl'.safety_iter = 0
               /\ rvl'.filler >= rvl.in.A /\ rvl'.filler > 0]_vars

\* C16 as stated: the segments are the successfully encoded items.
C16_EncodedSurvive ==
    [][Prepared =>
         ExactlyInOrder(rvl'.seg_paths, rvl'.durations,
                        {i \in 1..Len(rvl.in.media) : Encoded(i)})]_vars

\* A failed item and an encoded one: the second alone is the track's start.
C16_Witness ==
    /\ rvl.pc = "loop" /\ rvl.safety_iter = 0
    /\ Len(rvl.in.media) = 2
    /\ ~rvl.in.media[1].ok /\ Survives(2)
    /\ rvl.seg_paths = <<2>>

\* ------------------------------------------------------------------------
\* synthesize_tts (SpecTts).
\*
\* Durations the tools measure are integer milliseconds, the times of a
\* timeline entry are hundredths of a second (round(x, 2)), speed is in
\* hundredths.  One behaviour is one call on a list of segments; every pass
\* of the loop draws the outcome of tts_call, of the silence fallback and of
\* ffprobe.
\* ------------------------------------------------------------------------

\* Bounds of the inputs.
MaxSegments == 3

\* The segments segment_text hands over: ids count from 1; a text is known
\* by its place and its length.
TextLengths == {5, 100, 700}

SegmentLists ==
    UNION {[1..n -> TextLengths] : n \in 0..MaxSegments}

SegmentsOf(lens) ==
    [k \in 1..Len(lens) |-> [id |-> k, text |-> [of |-> k, len |-> lens[k]]]]

\* settings.speed, in hundredths.
Speeds == {30, 100, 300}

\* What ffprobe reads from a segment's file, in ms; 0 when it reads nothing.
Probes == {0, 4, 1234, 2505}

\* tts_call: True with the file written, True with no file, False (also the
\* value after any exception of the provider).
TtsOutcomes == {"ok", "nofile", "false", "raised"}

\* round(x, 2) of x in ms, in hundredths of a second (ties to even).
RoundCs(ms) ==
    LET q == ms \div 10
        r == ms % 10
    IN  IF r > 5 \/ (r = 5 /\ q % 2 = 1) THEN q + 1 ELSE q

Clamp(lo, hi, x) == Max2(lo, Min2(hi, x))

\* An estimate that takes the speed as configured.
SilenceEstimateRawSpeed(len, speed) ==
    Clamp(1200, 14000, (Max2(20, len) * 200 * 6000) \div (160 * speed))

\* Lines 924-926: the estimated length of the silence, in ms:
\* (chars / 5) / (est_wpm / 60) with est_wpm = 160 * speed clamped.
SilenceEstimate(len, speed) ==
    Clamp(1200, 14000,
          (Max2(20, len) * 200 * 6000) \div (160 * Clamp(50, 200, speed)))

\* _make_silence_mp3 writes at least 1.0 s.
SilenceDur(sec) == Max2(1000, sec)

\* A duration taken as measured, with no fallback.
DurSecMeasured(probe) == RoundCs(probe)

\* Line 929: round(_ffprobe_duration(seg_mp3), 2) or 1.2, in hundredths.
DurSec(probe) == IF RoundCs(probe) = 0 THEN 120 ELSE RoundCs(probe)

TtsStart(lens, speed) ==
    [pc |-> "loop", segments |-> SegmentsOf(lens), speed |-> speed,
     cursor |-> 0, timeline |-> <<>>, tts |-> <<>>, silence |-> <<>>,
     made |-> <<>>]

\* One pass of the loop over the segments (lines 915-937).
SynthesizeSegment ==
    /\ syn.pc = "loop"
    /\ Len(syn.timeline) < Len(syn.segments)
    /\ LET seg == syn.segments[Len(syn.timeline) + 1]
       IN \E out \in TtsOutcomes, silence_ok \in BOOLEAN, probe \in Probes :
            LET fallback == out # "ok"
                sec == SilenceEstimate(seg.text.len, syn.speed)
                measured == IF fallback /\ silence_ok THEN SilenceDur(sec)
                            ELSE IF out = "ok" THEN probe
                            ELSE IF out = "false" THEN probe
                            ELSE 0
                dur_sec == DurSec(measured)
            IN  /\ (out \in {"nofile", "raised"} /\ ~silence_ok) => probe = 0
                /\ (fallback /\ silence_ok) => probe = 0
                /\ syn' = [syn EXCEPT
                      !.timeline = Append(@, [id |-> seg.id, text |-> seg.text,
                                              start |-> RoundCs(syn.cursor * 10),
                                              end |-> RoundCs((syn.cursor + dur_sec) * 10)]),
                      !.cursor = @ + dur_sec,
                      !.tts = Append(@, out),
                      !.silence = Append(@, IF fallback THEN sec ELSE 0),
                      !.made = Append(@, fallback /\ silence_ok)]
    /\ UNCHANGED <<fsvars, umvars, jobvars, rvl, cap, sgt, pol>>

\* The parts are joined and (audio_path, timeline) returned (lines 939-943).
SynthesizeReturn ==
    /\ syn.pc = "loop"
    /\ Len(syn.timeline) = Len(syn.segments)
    /\ syn' = [syn EXCEPT !.pc = "returned"]
    /\ UNCHANGED <<fsvars, umvars, jobvars, rvl, cap, sgt, pol>>

InitTts ==
    /\ syn \in {TtsStart(lens, speed) : lens \in SegmentLists, speed \in Speeds}
    /\ rvl = Off /\ cap = Off /\ sgt = Off /\ pol = Off
    /\ local = NoFile /\ s3m = NoFile /\ s3ready = FALSE
    /\ UmOff
    /\ queue = <<>>
    /\ jpc = <<>> /\ jm = <<>>
    /\ active = 0 /\ nsub = 0
    /\ req = Idle
    /\ log = {}

NextTts == SynthesizeSegment \/ SynthesizeReturn

SpecTts == InitTts /\ [][NextTts]_vars

\* C17: a returned timeline starts at 0, each entry ends where the next one
\* starts, and every entry has start < end.
C17_TimelineContiguous ==
    syn.pc = "returned" =>
        LET tl == syn.timeline
        IN  /\ tl # <<>> => tl[1].start = 0
            /\ \A i \in 1..(Len(tl) - 1) : tl[i].end = tl[i + 1].start
            /\ \A i \in 1..Len(tl) : tl[i].start < tl[i].end

\* Three entries returned, from a failed call, a file ffprobe reads nothing
\* from and a spoken segment.
C17_Witness ==
    /\ syn.pc = "returned" /\ Len(syn.timeline) = 3
    /\ syn.tts = <<"false", "ok", "ok">>
    /\ syn.timeline[2].end - syn.timeline[2].start = 120
    /\ syn.timeline[3].end - syn.timeline[3].start = 250

\* The estimate as the narration fallback defines it, in ms.
ClaimedSilence(len, speed) ==
    LET chars == IF len < 20 THEN 20 ELSE len
        s == IF speed < 50 THEN 50 ELSE IF speed > 200 THEN 200 ELSE speed
        sec == (chars * 1200000) \div (160 * s)
    IN  IF sec < 1200 THEN 1200 ELSE IF sec > 14000 THEN 14000 ELSE sec

\* C18: whichever calls fail, the returned timeline has one entry for each
\* segment, in order, with its id and text; for a failed call silence of the
\* estimated duration is asked for, and the entry has that length when the
\* silence was written.
C18_FailedTtsIsSilence ==
    syn.pc = "returned" =>
        /\ Len(syn.timeline) = Len(syn.segments)
        /\ \A i \in 1..Len(syn.timeline) :
             /\ syn.timeline[i].id = syn.segments[i].id
             /\ syn.timeline[i].text = syn.segments[i].text
             /\ syn.tts[i] # "ok" =>
                  /\ syn.silence[i] = ClaimedSilence(syn.segments[i].text.len, syn.speed)
                  /\ syn.made[i] =>
                       syn.timeline[i].end - syn.timeline[i].start
                           = RoundCs(syn.silence[i])

\* Every call failed in its own way and three entries of silence returned.
C18_Witness ==
    /\ syn.pc = "returned" /\ Len(syn.timeline) = 3
    /\ syn.tts = <<"false", "raised", "nofile">>
    /\ \A i \in 1..3 : syn.made[i]
    /\ syn.speed = 300
    /\ \E i \in 1..3 : syn.silence[i] = 14000

\* ------------------------------------------------------------------------
\* generate_ass_from_timeline (SpecCaptions).
\*
\* One behaviour is the pass of the loop over one timeline entry: its words
\* are cut into groups and every group gets a window.  Times are ms; the
\* window of a group is kept multiplied by chunk_count, so that dur /
\* chunk_count is exact.
\* ------------------------------------------------------------------------

\* Bounds of the inputs.
MaxWordCount == 12

MAX_WORDS == 5
MIN_CHUNK_DUR == 700
MinSegDur == 100

\* start of the entry and end - start, in ms.
CaptionStarts == {0, 1230}

CaptionLengths == {10, 50, 100, 400, 1500, 5000}

CeilDiv(a, b) == (a + b - 1) \div b

\* Lines 1322-1334 of one entry: dur, chunk_count, min_chunk (times
\* chunk_count), base (times chunk_count, which is dur).
CaptionStart(start, len, n) ==
    LET dur == Max2(MinSegDur, len)
        cc  == CeilDiv(n, MAX_WORDS)
    IN  [pc |-> IF n = 0 THEN "written" ELSE "groups",
         start |-> start, end |-> start + len, words |-> n,
         dur |-> dur, chunk_count |-> cc,
         min_chunk |-> IF cc * MIN_CHUNK_DUR > dur THEN dur ELSE cc * MIN_CHUNK_DUR,
         chunks |-> <<>>]

\* Line 1337: the words of group i, as first and last index.
Group(i, n) == [first |-> i * MAX_WORDS + 1, last |-> Min2(n, (i + 1) * MAX_WORDS)]

\* Lines 1338-1353: the window of the next group and its Dialogue line.
CaptionChunk ==
    /\ cap.pc = "groups"
    /\ Len(cap.chunks) < cap.chunk_count
    /\ LET i == Len(cap.chunks)
           cstart == cap.start * cap.chunk_count + i * cap.dur
           cend0  == cap.start * cap.chunk_count + (i + 1) * cap.dur
           cend1  == IF cend0 - cstart < cap.min_chunk
                     THEN cstart + cap.min_chunk ELSE cend0
           cend   == IF cend0 - cstart < cap.min_chunk
                        /\ cend1 > cap.end * cap.chunk_count
                     THEN cap.end * cap.chunk_count ELSE cend1
       IN cap' = [cap EXCEPT !.chunks =
                     Append(@, [grp |-> Group(i, cap.words),
                                cstart |-> cstart, cend |-> cend])]
    /\ UNCHANGED <<fsvars, umvars, jobvars, rvl, syn, sgt, pol>>

\* The lines of the entry are all there; the file is written.
CaptionWrite ==
    /\ cap.pc = "groups"
    /\ Len(cap.chunks) = cap.chunk_count
    /\ cap' = [cap EXCEPT !.pc = "written"]
    /\ UNCHANGED <<fsvars, umvars, jobvars, rvl, syn, sgt, pol>>

InitCaptions ==
    /\ cap \in {CaptionStart(start, len, n) :
                   start \in CaptionStarts, len \in CaptionLengths,
                   n \in 0..MaxWordCount}
    /\ rvl = Off /\ syn = Off /\ sgt = Off /\ pol = Off
    /\ local = NoFile /\ s3m = NoFile /\ s3ready = FALSE
    /\ UmOff
    /\ queue = <<>>
    /\ jpc = <<>> /\ jm = <<>>
    /\ active = 0 /\ nsub = 0
    /\ req = Idle
    /\ log = {}

NextCaptions == CaptionChunk \/ CaptionWrite

SpecCaptions == InitCaptions /\ [][NextCaptions]_vars

\* C19: for an entry with words, whatever its duration, every chunk has at
\* most 5 words, the windows follow one another without overlap, and they
\* cover exactly the window of the entry: the first starts at its start and
\* the last ends at its end.
C19_ChunksCoverParent ==
    (cap.pc = "written" /\ cap.words > 0) =>
        LET cs == cap.chunks
            k  == cap.chunk_count
        IN  /\ cs # <<>>
            /\ \A i \in 1..Len(cs) :
                 /\ cs[i].grp.last - cs[i].grp.first + 1 <= MAX_WORDS
                 /\ cs[i].cstart <= cs[i].cend
                 /\ cap.start * k <= cs[i].cstart /\ cs[i].cend <= cap.end * k
            /\ \A i \in 1..(Len(cs) - 1) : cs[i].cend = cs[i + 1].cstart
            /\ cs[1].cstart = cap.start * k
            /\ cs[Len(cs)].cend = cap.end * k

\* ------------------------------------------------------------------------
\* segment_text (SpecSegment).
\*
\* A text is a sequence of characters over a letter, a full stop and a
\* space; one behaviour is one call: the split into sentences, one pass of
\* the loop for each sentence, and the return.
\* ------------------------------------------------------------------------

\* Bounds of the inputs.
MaxTextLen == 6

Alphabet == {"a", ".", " "}

SentenceEnds == {".", "!", "?"}

Texts == UNION {[1..n -> Alphabet] : n \in 0..MaxTextLen}

MaxCharsValues == {0, 2, 3, 5}

\* str.strip()
RECURSIVE Strip(_)
Strip(s) ==
    IF s = <<>> THEN s
    ELSE IF s[1] = " " THEN Strip(Tail(s))
    ELSE IF s[Len(s)] = " " THEN Strip(SubSeq(s, 1, Len(s) - 1))
    ELSE s

\* The end of the run of whitespace that starts at i.
RECURSIVE SkipSpaces(_, _)
SkipSpaces(text, i) ==
    IF i <= Len(text) /\ text[i] = " " THEN SkipSpaces(text, i + 1) ELSE i

\* re.split(r"(?<=[.!?])\s+", text): the text is cut at every run of
\* whitespace that follows a sentence end; the run is dropped.
RECURSIVE SplitFrom(_, _, _)
SplitFrom(text, i, piece) ==
    IF i > Len(text) THEN <<piece>>
    ELSE IF text[i] = " " /\ i > 1 /\ text[i - 1] \in SentenceEnds
         THEN <<piece>> \o SplitFrom(text, SkipSpaces(text, i), <<>>)
         ELSE SplitFrom(text, i + 1, Append(piece, text[i]))

\* [s.strip() for s in pieces if s.strip()]
RECURSIVE StripAll(_)
StripAll(pieces) ==
    IF pieces = <<>> THEN <<>>
    ELSE (IF Strip(pieces[1]) = <<>> THEN <<>> ELSE <<Strip(pieces[1])>>)
             \o StripAll(Tail(pieces))

\* Line 806.
Sentences(text) == StripAll(SplitFrom(text, 1, <<>>))

\* A test that forgets the space of the join.
FitsNoSpace(buf, s, max_chars) == Len(buf) + Len(s) <= max_chars

\* Line 811.
Fits(buf, s, max_chars) == Len(buf) + Len(s) + 1 <= max_chars

SegmentStart(text, max_chars) ==
    [pc |-> "split", text |-> text, max_chars |-> max_chars,
     sentences |-> <<>>, k |-> 0, buf |-> <<>>, segments |-> <<>>]

\* Lines 803-809: an empty text returns at once; any other is split.
SegmentSplit ==
    /\ sgt.pc = "split"
    /\ sgt' = IF sgt.text = <<>>
              THEN [sgt EXCEPT !.pc = "returned"]
              ELSE [sgt EXCEPT !.pc = "loop", !.sentences = Sentences(sgt.text)]
    /\ UNCHANGED <<fsvars, umvars, jobvars, rvl, syn, cap, pol>>

\* Lines 810-821: one pass of the loop over the sentences.
SegmentSentence ==
    /\ sgt.pc = "loop"
    /\ sgt.k < Len(sgt.sentences)
    /\ LET s == sgt.sentences[sgt.k + 1]
           sid == Len(sgt.segments) + 1
       IN sgt' =
            IF Fits(sgt.buf, s, sgt.max_chars)
            THEN [sgt EXCEPT !.k = @ + 1, !.buf = Strip(sgt.buf \o <<" ">> \o s)]
            ELSE IF sgt.buf # <<>>
            THEN [sgt EXCEPT !.k = @ + 1, !.buf = s,
                             !.segments = Append(@, [id |-> sid, text |-> sgt.buf])]
            ELSE [sgt EXCEPT !.k = @ + 1, !.buf = <<>>,
                             !.segments = Append(@, [id |-> sid, text |-> s])]
    /\ UNCHANGED <<fsvars, umvars, jobvars, rvl, syn, cap, pol>>

\* A return that forgets what is left in buf.
SegmentReturnNoFlush ==
    /\ sgt.pc = "loop"
    /\ sgt.k = Len(sgt.sentences)
    /\ sgt' = [sgt EXCEPT !.pc = "returned", !.buf = <<>>]
    /\ UNCHANGED <<fsvars, umvars, jobvars, rvl, syn, cap, pol>>

\* Lines 822-824: what is left in buf is the last segment.
SegmentReturn ==
    /\ sgt.pc = "loop"
    /\ sgt.k = Len(sgt.sentences)
    /\ sgt' = [sgt EXCEPT
                 !.pc = "returned", !.buf = <<>>,
                 !.segments = IF sgt.buf # <<>>
                              THEN Append(@, [id |-> Len(@) + 1, text |-> sgt.buf])
                              ELSE @]
    /\ UNCHANGED <<fsvars, umvars, jobvars, rvl, syn, cap, pol>>

InitSegment ==
    /\ sgt \in {SegmentStart(text, m) : text \in Texts, m \in MaxCharsValues}
    /\ rvl = Off /\ syn = Off /\ cap = Off /\ pol = Off
    /\ local = NoFile /\ s3m = NoFile /\ s3ready = FALSE
    /\ UmOff
    /\ queue = <<>>
    /\ jpc = <<>> /\ jm = <<>>
    /\ active = 0 /\ nsub = 0
    /\ req = Idle
    /\ log = {}

NextSegment == SegmentSplit \/ SegmentSentence \/ SegmentReturn

SpecSegment == InitSegment /\ [][NextSegment]_vars

\* The sentences joined by single spaces.
RECURSIVE JoinSentences(_)
JoinSentences(ss) ==
    IF ss = <<>> THEN <<>>
    ELSE IF Len(ss) = 1 THEN ss[1]
    ELSE ss[1] \o <<" ">> \o JoinSentences(Tail(ss))

\* segs are whole sentences of ss, in order and none left out, each segment
\* one sentence or a join no longer than max_chars.
RECURSIVE PacksWhole(_, _, _)
PacksWhole(segs, ss, max_chars) ==
    IF segs = <<>> THEN ss = <<>>
    ELSE \E n \in 1..Len(ss) :
           /\ segs[1].text = JoinSentences(SubSeq(ss, 1, n))
           /\ n = 1 \/ Len(segs[1].text) <= max_chars
           /\ PacksWhole(Tail(segs), SubSeq(ss, n + 1, Len(ss)), max_chars)

\* C20: every returned segment is at most maxChars long or is exactly one
\* sentence of the text; the segments are whole sentences in order, so no
\* sentence is split and no join of two or more exceeds maxChars.
C20_SegmentsRespectMax ==
    sgt.pc = "returned" =>
        /\ PacksWhole(sgt.segments, sgt.sentences, sgt.max_chars)
        /\ \A i \in 1..Len(sgt.segments) :
              \/ Len(sgt.segments[i].text) <= sgt.max_chars
              \/ \E n \in 1..Len(sgt.sentences) :
                    sgt.segments[i].text = sgt.sentences[n]

\* A text of two sentences returned as a join of both.
C20_Witness ==
    /\ sgt.pc = "returned"
    /\ Len(sgt.sentences) = 2 /\ Len(sgt.segments) = 1
    /\ Len(sgt.segments[1].text) = sgt.max_chars

\* The texts of the segments, in order.
SegmentTexts(segs) == [i \in 1..Len(segs) |-> segs[i].text]

\* C21: the returned segments carry the ids 1..n in order and their texts,
\* joined by single spaces, are the sentences of the text joined by single
\* spaces; an empty text gives no segment, and sentences that fit together
\* in maxChars give exactly one.
C21_SegmentsReproduceText ==
    sgt.pc = "returned" =>
        /\ \A i \in 1..Len(sgt.segments) : sgt.segments[i].id = i
        /\ JoinSentences(SegmentTexts(sgt.segments)) = JoinSentences(sgt.sentences)
        /\ sgt.text = <<>> => sgt.segments = <<>>
        /\ (sgt.sentences # <<>>
              /\ Len(JoinSentences(sgt.sentences)) <= sgt.max_chars)
             => Len(sgt.segments) = 1

\* Three sentences returned as three numbered segments.
C21_Witness ==
    /\ sgt.pc = "returned"
    /\ Len(sgt.sentences) = 3 /\ Len(sgt.segments) = 3
    /\ sgt.segments[3].id = 3
    /\ sgt.segments[3].text = sgt.sentences[3]

\* C22: no write stores a manifest with status done, and no upload puts a
\* manifest into the blob store, unless validate_manifest accepts it.
C22_DoneOnlyIfValid ==
    [][/\ (local' # local /\ local' # NoFile /\ StatusOf(local') = "done")
            => ValidateManifest(local'.v)
       /\ (s3m' # s3m /\ s3m' # NoFile) => ValidateManifest(s3m'.v)]_vars

\* The blob store holds the manifest m with a url for every output file it
\* lists.
MirroredInS3(m) ==
    /\ s3m' # NoFile
    /\ LET outs == OutputsOrEmpty(m)
       IN  IsDict(outs) =>
             \A p \in SyncPairs :
                Truthy(Get(outs.v, p[1])) =>
                    /\ IsDict(OutputsOrEmpty(s3m'.v))
                    /\ Truthy(Get(OutputsOrEmpty(s3m'.v).v, p[2]))

\* C23: whenever a deletion removes the project directory, the manifest and
\* every output file it lists are in the blob store.
C23_DeleteMirrorsFirst ==
    [][(local # NoFile /\ local' = NoFile) => MirroredInS3(local.v)]_vars

\* ------------------------------------------------------------------------
\* SpecPoll: the polling loop of a remote render engine, one call.
\* renders_engines/json2video.py run (358-388) and renders_engines/
\* shotstack.py render_via_shotstack._poll_and_fetch (847-893).  Time is
\* counted in half seconds.  elapsed is the wall clock since the loop
\* started, waited is _poll_and_fetch's own counter (sleeps only).
\* ------------------------------------------------------------------------
J2V_SLEEP == 2            \* time.sleep(1.0)
SHOT_INTERVAL == 5        \* interval = 2.5
SHOT_INTERVAL_CAP == 12   \* min(6.0, interval + 0.5)
MaxLatency == 1           \* longest poll request, in half seconds
MaxWaits == {3, 12, 30}   \* timeout_s / SHOTSTACK_POLL_MAX_SEC, half seconds
Providers == {"json2video", "shotstack"}

\* what one status request answers
J2VStatuses == {"queued", "unknown", "done", "error"}
ShotStatuses == {"rendering", "done", "done_no_url", "failed", "error", "http_error"}

PollStart(provider, max_wait) ==
    [pc |-> "poll", provider |-> provider, max_wait |-> max_wait,
     elapsed |-> 0, waited |-> 0, interval |-> SHOT_INTERVAL,
     ended_by |-> "none", outcome |-> [kind |-> "none"]]

PollEnd(by, outcome, lat) ==
    pol' = [pol EXCEPT !.pc = "done", !.ended_by = by, !.outcome = outcome,
                       !.elapsed = @ + lat]

\* json2video run: the result of a loop that ran out of time; line 374 sets
\* status = "error"
J2VTimeoutResult ==
    [kind |-> "result", status |-> "error"]

\* one pass of `while True:` in json2video run
J2VPass ==
    /\ pol.pc = "poll" /\ pol.provider = "json2video"
    /\ \E status \in J2VStatuses, lat \in 0..MaxLatency :
          IF status \in {"done", "error"}
          THEN PollEnd(IF status = "done" THEN "done" ELSE "failure",
                       [kind |-> "result", status |-> status], lat)
          ELSE IF pol.elapsed + lat > pol.max_wait
          THEN PollEnd("timeout", J2VTimeoutResult, lat)
          ELSE pol' = [pol EXCEPT !.elapsed = @ + lat + J2V_SLEEP]
    /\ UNCHANGED <<fsvars, umvars, jobvars, rvl, syn, cap, sgt>>

\* one pass of `while waited < max_wait_s:` in _poll_and_fetch
ShotPass ==
    /\ pol.pc = "poll" /\ pol.provider = "shotstack"
    /\ pol.waited < pol.max_wait
    /\ \E status \in ShotStatuses, lat \in 0..MaxLatency :
          CASE status = "http_error" ->
                 PollEnd("http", [kind |-> "raise", exc |-> "RequestException"], lat)
            [] status = "done" ->
                 PollEnd("done", [kind |-> "return"], lat)
            [] status = "done_no_url" ->
                 PollEnd("done", [kind |-> "raise", exc |-> "RuntimeError"], lat)
            [] status \in {"failed", "error"} ->
                 PollEnd("failure", [kind |-> "raise", exc |-> "RuntimeError"], lat)
            [] OTHER ->
                 pol' = [pol EXCEPT !.elapsed = @ + lat + pol.interval,
                                    !.waited = @ + pol.interval,
                                    !.interval = IF @ < SHOT_INTERVAL_CAP
                                                 THEN Min2(SHOT_INTERVAL_CAP, @ + 1)
                                                 ELSE @]
    /\ UNCHANGED <<fsvars, umvars, jobvars, rvl, syn, cap, sgt>>

\* the loop condition fails: raise TimeoutError
ShotTimeout ==
    /\ pol.pc = "poll" /\ pol.provider = "shotstack"
    /\ ~(pol.waited < pol.max_wait)
    /\ PollEnd("timeout", [kind |-> "raise", exc |-> "TimeoutError"], 0)
    /\ UNCHANGED <<fsvars, umvars, jobvars, rvl, syn, cap, sgt>>

InitPoll ==
    /\ local = NoFile /\ s3m = NoFile /\ s3ready = FALSE
    /\ UmOff
    /\ queue = <<>> /\ jpc = <<>> /\ jm = <<>> /\ active = 0 /\ nsub = 0
    /\ req = Idle /\ log = {}
    /\ rvl = Off /\ syn = Off /\ cap = Off /\ sgt = Off
    /\ \E provider \in Providers, max_wait \in MaxWaits :
          pol = PollStart(provider, max_wait)

NextPoll == J2VPass \/ ShotPass \/ ShotTimeout

SpecPoll == InitPoll /\ [][NextPoll]_vars

\* the longest sleep of the loop
LongestSleep ==
    IF pol.provider = "json2video" THEN J2V_SLEEP ELSE SHOT_INTERVAL_CAP

\* the outcomes a provider's failure status gives
FailureOutcomes ==
    IF pol.provider = "json2video"
    THEN {[kind |-> "result", status |-> "error"]}
    ELSE {[kind |-> "raise", exc |-> "RuntimeError"]}

\* C24: a polling loop (json2video run, Shotstack _poll_and_fetch) is over
\* once its maximum wait has passed (it sleeps at most one more interval and
\* sends at most one more request), and the outcome of a loop that ran out
\* of time is not the outcome the loop gives for a job the provider reported
\* as failed.
C24_TimeoutIsNotFailure ==
    /\ pol.pc = "poll" =>
          (IF pol.provider = "json2video" THEN pol.elapsed ELSE pol.waited)
             <= pol.max_wait + LongestSleep + MaxLatency
    /\ (pol.pc = "done" /\ pol.ended_by = "timeout") =>
          pol.outcome \notin FailureOutcomes

\* ------------------------------------------------------------------------
\* The reconciliation loop of render_video_local, pass by pass (SpecVisual).
\* ------------------------------------------------------------------------

\* the overlap the loop compares last_dur with
LoopOverlap == IF rvl.in.use_xfade THEN rvl.in.xfade_d ELSE 0

\* the step is a pass of the loop / the step leaves the loop
IsLoopPass ==
    rvl.pc = "loop" /\ rvl'.pc = "loop" /\ rvl'.safety_iter = rvl.safety_iter + 1
IsLoopExit == rvl.pc = "loop" /\ rvl'.pc = "visual"

\* the last prepared segment is longer than the overlap, so that no filler
\* is ever made
LastLongerThanOverlap ==
    /\ rvl.seg_paths # <<>>
    /\ \A k \in 1..Len(rvl.seg_paths) : rvl.seg_paths[k] # 0
    /\ rvl.durations[Len(rvl.durations)] > LoopOverlap

\* C25: the reconciliation loop appends nothing once effective + epsilon >= A
\* (nothing at all when that holds on entry); it is left only then or at the
\* cap; with a last segment longer than the overlap every pass appends one
\* copy of the last segment, same clip and same duration; and three clips of
\* 4 s with an overlap of 1 s get one more segment under a narration of 11 s
\* (effective 13 s) and none under a narration of 9.5 s.
C25_LeastSegments ==
    [][/\ (rvl.pc = "loop" /\ rvl.eff + Eps >= rvl.in.A) =>
             (rvl'.seg_paths = rvl.seg_paths /\ rvl'.durations = rvl.durations)
       /\ IsLoopExit =>
             (rvl.eff + Eps >= rvl.in.A \/ rvl.safety_iter >= SafetyIterCap)
       /\ (IsLoopPass /\ LastLongerThanOverlap) =>
             /\ rvl'.seg_paths =
                   Append(rvl.seg_paths, rvl.seg_paths[Len(rvl.seg_paths)])
             /\ rvl'.durations =
                   Append(rvl.durations, rvl.durations[Len(rvl.durations)])
       /\ (IsLoopExit /\ rvl.in \in ScenarioInputs) =>
             IF rvl.in.A = 11000
             THEN /\ rvl.durations = <<4000, 4000, 4000, 4000>>
                  /\ rvl.seg_paths = <<1, 2, 3, 3>>
                  /\ rvl.eff = 13000 /\ rvl.safety_iter = 1
             ELSE /\ rvl.durations = <<4000, 4000, 4000>>
                  /\ rvl.seg_paths = <<1, 2, 3>>
                  /\ rvl.eff = 10000 /\ rvl.safety_iter = 0
      ]_vars

\* The loop has been left after one pass that repeated the last of three
\* clips of 4 s.
C25_Witness ==
    /\ rvl.pc = "visual" /\ rvl.in \in ScenarioInputs /\ rvl.in.A = 11000
    /\ rvl.safety_iter = 1
    /\ rvl.seg_paths = <<1, 2, 3, 3>>
    /\ rvl.eff = 13000

\* The duration of the clip a segment names: the measured duration of the
\* encoded media item, and for a filler (0) what the loop read back for it.
ClipDur(p) ==
    IF p = 0 THEN LoopFillerDur(rvl.in.xfade_d, rvl.in.probe_ok)
    ELSE rvl.in.media[p].dur

\* C26: in and after the reconciliation loop seg_paths and durations have the
\* same length and durations[i] is the duration of the clip seg_paths[i],
\* also after a filler was inserted and further segments were appended.
C26_ListsAligned ==
    rvl.pc \in {"loop", "visual"} =>
        /\ Len(rvl.seg_paths) = Len(rvl.durations)
        /\ \A i \in 1..Len(rvl.seg_paths) :
              rvl.durations[i] = ClipDur(rvl.seg_paths[i])

\* ------------------------------------------------------------------------
\* SpecStatus: status polls of one project while its jobs run.  The project
\* exists; renders are queued by update_project_view; a poll's read and its
\* save are separate steps, with the workers and a deletion between them.
\* ------------------------------------------------------------------------
InitStatus ==
    /\ local = D(CreatedManifest("local")) /\ s3m = NoFile
    /\ s3ready \in BOOLEAN
    /\ UmOff /\ FnOff
    /\ queue = <<>>
    /\ jpc = [j \in 1..MaxJobs |-> "idle"]
    /\ jm = [j \in 1..MaxJobs |-> None]
    /\ active = 0 /\ nsub = 0
    /\ req = Idle
    /\ log = {}

NextStatus ==
    \/ UpdateProject
    \/ ApiStatusRead
    \/ ApiStatusWrite
    \/ DeleteProject
    \/ \E j \in Jobs : JobStep(j)

SpecStatus == InitStatus /\ [][NextStatus]_vars

\* the step is the save that ends a status poll
IsPollSave == req.pc = "status" /\ req' = Idle

\* C27: a status poll leaves the manifest's status, outputs and payload as
\* they are in the file: its save of the manifest it read earlier does not
\* replace a status (or outputs, or a payload) written between its read and
\* its save.
C27_PollLeavesJobState ==
    [][(IsPollSave /\ local # NoFile) =>
          \A k \in {"status", "outputs", "payload"} :
              Get(local'.v, k) = Get(local.v, k)]_vars

FailingJobStep(j) ==
    /\ JobMoves(j)
    /\ jpc[j] \in {"queued", "processing", "failed"} \/ jpc'[j] = "failed"

\* C29: the steps of a job that ends in error leave the outputs and the
\* payload of the manifest file as they are: the processing patch and the
\* error patch change status and error only, and a render that raises has
\* written no outputs.
C29_ErrorKeepsOutputs ==
    [][\A j \in Jobs :
          (FailingJobStep(j) /\ local # NoFile /\ local' # NoFile) =>
              /\ Get(local'.v, "outputs") = Get(local.v, "outputs")
              /\ Get(local'.v, "payload") = Get(local.v, "payload")]_vars

\* status and error of a manifest agree: no error under processing or done,
\* a message under error
StatusErrorAgree(m) ==
    /\ Get(m, "status") \in {S("processing"), S("done")} => ~Truthy(Get(m, "error"))
    /\ Get(m, "status") = S("error") => Truthy(Get(m, "error"))

\* C30: every manifest that start_render_async, the job runner (through
\* update_manifest and render_video_local) or api_status writes has status
\* and error in agreement: error null under processing and done (so the
\* processing patch clears an earlier error and no write adds an error to a
\* done manifest), a message under error.
C30_StatusErrorAgree ==
    [][(local' # local /\ local' # NoFile) => StatusErrorAgree(local'.v)]_vars

====
